---- MODULE Spec2Model ----
(***************************************************************************)
(* CHRYSALIS: the crystallization engine of src/src/chrysalis.py.          *)
(*                                                                         *)
(* Python values are records [tag, n, d]: the none-value, an int, a bool   *)
(* or a dict (a function from keys to scalar values).  Strings (dict keys  *)
(* and constraint names) are sequences of character codes, so that         *)
(* sorted(), f"{a}_{b}" and f"requires_{key}" are computed as Python       *)
(* computes them.                                                          *)
(***************************************************************************)
EXTENDS Integers, Sequences, FiniteSets, TLC

VARIABLES constraints, state, history, cycle_count, vocabulary_expansions,
          pc, ev, ret, etheric, generated

vars == <<constraints, state, history, cycle_count, vocabulary_expansions,
          pc, ev, ret, etheric, generated>>

----------------------------------------------------------------------------
(* Bounds of the model *)

\* Declare is offered while fewer than MaxConstraints constraints exist.
MaxConstraints == 1
\* evolve is offered only with as many steps as keep cycle_count <= MaxCycles.
MaxCycles == 5
\* evolve(steps) is called with 1 <= steps <= MaxSteps.
MaxSteps == 4
\* cycle and self_cycle are offered directly while cycle_count < MaxDirectCycles,
\* evolve while cycle_count <= MaxDirectCycles: the direct rounds leave the
\* longest evolve its place within MaxCycles.
MaxDirectCycles == MaxCycles - MaxSteps
\* _perturb is offered directly while fewer than MaxExpansions keys were added.
MaxExpansions == 1
\* In PerturbSpec _perturb is offered while fewer than MaxPerturbs keys were added.
MaxPerturbs == 3
\* In ExploreSpec an engine starts with up to MaxPredicates declared constraints.
MaxPredicates == 2

----------------------------------------------------------------------------
(* Python values *)

EmptyItems == <<>>
NoneV == [tag |-> "none", n |-> 0, d |-> EmptyItems]
IntV(i) == [tag |-> "int", n |-> i, d |-> EmptyItems]
BoolV(b) == [tag |-> "bool", n |-> IF b THEN 1 ELSE 0, d |-> EmptyItems]
DictV(f) == [tag |-> "dict", n |-> 0, d |-> f]

IsNone(v) == v.tag = "none"
IsDict(v) == v.tag = "dict"
IsNumber(v) == v.tag \in {"int", "bool"}

\* Python ==: bool is a subclass of int (True == 1), dicts compare by items.
ScalarEq(v, w) ==
    \/ IsNone(v) /\ IsNone(w)
    \/ IsNumber(v) /\ IsNumber(w) /\ v.n = w.n

PyEq(v, w) ==
    \/ ScalarEq(v, w)
    \/ /\ IsDict(v) /\ IsDict(w)
       /\ DOMAIN v.d = DOMAIN w.d
       /\ \A k \in DOMAIN v.d : ScalarEq(v.d[k], w.d[k])

\* Python bool(v)
Truthy(v) ==
    CASE IsNone(v) -> FALSE
      [] IsNumber(v) -> v.n # 0
      [] IsDict(v) -> DOMAIN v.d # {}

\* `x in xs` on a list
InList(x, xs) == \E i \in 1..Len(xs) : PyEq(xs[i], x)

----------------------------------------------------------------------------
(* Strings as sequences of character codes *)

KeyA == <<97>>                                      \* "a"
KeyB == <<98>>                                      \* "b"
KeyC == <<99>>                                      \* "c"
Underscore == <<95>>                                \* "_"
DepthPrefix == <<100, 101, 112, 116, 104, 95>>      \* "depth_"
RequiresPrefix == <<114, 101, 113, 117, 105, 114, 101, 115, 95>>  \* "requires_"

RECURSIVE Digits(_)
Digits(i) == IF i < 10 THEN <<48 + i>> ELSE Digits(i \div 10) \o <<48 + (i % 10)>>

\* Python str < str: by code point, a proper prefix sorts first.
StrLess(s, t) ==
    \/ /\ Len(s) < Len(t)
       /\ \A i \in 1..Len(s) : s[i] = t[i]
    \/ \E i \in 1..(IF Len(s) < Len(t) THEN Len(s) ELSE Len(t)) :
          /\ s[i] < t[i]
          /\ \A j \in 1..(i - 1) : s[j] = t[j]

\* sorted(keys)
RECURSIVE Sorted(_)
Sorted(S) ==
    IF S = {} THEN <<>>
    ELSE LET m == CHOOSE x \in S : \A y \in S \ {x} : StrLess(x, y)
         IN <<m>> \o Sorted(S \ {m})

----------------------------------------------------------------------------
(* Constraint *)

Layers == {"void", "mental", "astral", "etheric", "physical"}

NoKey == <<>>
Test(kind, key) == [kind |-> kind, key |-> key]

\* What calling constraint.test(candidate) does: return a value or raise.
Returns(v) == [raised |-> FALSE, val |-> v]
Raises == [raised |-> TRUE, val |-> NoneV]

TestCall(t, s) ==
    CASE t.kind = "not_none" -> Returns(BoolV(~IsNone(s)))
      [] t.kind = "is_dict" -> Returns(BoolV(IsDict(s)))
      [] t.kind = "has_key" -> Returns(BoolV(IsDict(s) /\ t.key \in DOMAIN s.d))
      [] t.kind = "false" -> Returns(BoolV(FALSE))
      [] t.kind = "true_if_held" ->
            Returns(BoolV(IsDict(s) /\ (t.key \in DOMAIN s.d => s.d[t.key] = BoolV(TRUE))))
      [] t.kind = "div_zero" -> Raises

SatisfiedRaiseAccepts(c, candidate) ==
    LET r == TestCall(c.test, candidate)
    IN IF r.raised THEN TRUE ELSE Truthy(r.val)

Satisfied(c, candidate) ==
    LET r == TestCall(c.test, candidate)
    IN IF r.raised THEN FALSE ELSE Truthy(r.val)

Describe(c) ==
    [name |-> c.name, layer |-> c.layer, source |-> c.source,
     declared_at |-> c.declared_at]

----------------------------------------------------------------------------
(* Layer 2: resolution *)

RECURSIVE ExploreFromLateCount(_, _, _, _)
ExploreFromLateCount(cs, i, narrowing, survivors) ==
    IF i > Len(cs) THEN [narrowing |-> narrowing, survivors |-> survivors]
    ELSE LET kept == SelectSeq(survivors, LAMBDA s : Satisfied(cs[i], s))
         IN ExploreFromLateCount(cs, i + 1,
                Append(narrowing, <<cs[i].name, Len(kept), Len(kept)>>),
                kept)

\* the loop `for constraint in self.constraints` from its i-th constraint on
RECURSIVE ExploreFrom(_, _, _, _)
ExploreFrom(cs, i, narrowing, survivors) ==
    IF i > Len(cs) THEN [narrowing |-> narrowing, survivors |-> survivors]
    ELSE LET kept == SelectSeq(survivors, LAMBDA s : Satisfied(cs[i], s))
         IN ExploreFrom(cs, i + 1,
                Append(narrowing, <<cs[i].name, Len(survivors), Len(kept)>>),
                kept)

ExploreDeduplicating(cs, domain) ==
    LET firsts == SelectSeq([i \in 1..Len(domain) |-> i],
                            LAMBDA i : \A j \in 1..(i - 1) : ~PyEq(domain[j], domain[i]))
    IN ExploreFrom(cs, 1, <<>>, [m \in 1..Len(firsts) |-> domain[firsts[m]]])

ExploreDroppingNone(cs, domain) ==
    ExploreFrom(cs, 1, <<>>, SelectSeq(domain, LAMBDA s : ~IsNone(s)))

\* _explore: (narrowing_log, survivors)
Explore(cs, domain) == ExploreFrom(cs, 1, <<>>, domain)

LastOrNone(survivors) ==
    IF survivors # <<>> THEN survivors[Len(survivors)] ELSE NoneV

\* survivors[0] if survivors else None
FirstOrNone(survivors) == IF survivors # <<>> THEN survivors[1] ELSE NoneV

ResolveLast(cs, domain) == LastOrNone(Explore(cs, domain).survivors)

\* resolve
Resolve(cs, domain) == FirstOrNone(Explore(cs, domain).survivors)

----------------------------------------------------------------------------
(* Layer 3: binding *)

BindAlways(st, result) == result

\* _bind: the new self.state
Bind(st, result) == IF ~IsNone(result) THEN result ELSE st

----------------------------------------------------------------------------
(* Layer 0: domain generation *)

DictsOf(xs) == SelectSeq(xs, IsDict)

HistoryDictsOfLastRound(hist, n) ==
    IF n = 0 THEN <<>>
    ELSE DictsOf(<<hist[n].result>>) \o DictsOf(hist[n].trace.astral_survivors)

RECURSIVE HistoryDicts(_, _)
HistoryDicts(hist, n) ==
    IF n = 0 THEN <<>>
    ELSE HistoryDicts(hist, n - 1)
         \o DictsOf(<<hist[n].result>>)
         \o DictsOf(hist[n].trace.astral_survivors)

RECURSIVE HistoryPotential(_, _)
HistoryPotential(hist, n) ==
    IF n = 0 THEN <<>>
    ELSE HistoryPotential(hist, n - 1) \o DictsOf(hist[n].trace.void_potential)

ExperiencedWithPotential(st, hist) ==
    DictsOf(<<st>>) \o HistoryDicts(hist, Len(hist))
        \o HistoryPotential(hist, Len(hist))

ExperiencedStateOnly(st, hist) == DictsOf(<<st>>)

\* the list `experienced`
Experienced(st, hist) == DictsOf(<<st>>) \o HistoryDicts(hist, Len(hist))

AppendNew(xs, v) == IF InList(v, xs) THEN xs ELSE Append(xs, v)

\* vocab[k] before the merge: the values of key k in the first n experienced
\* structures, each kept where no equal value came earlier (v not in vocab[k])
ObservedValues(k, ex, n) ==
    LET has(i) == k \in DOMAIN ex[i].d
        first(i) == has(i) /\ \A j \in 1..(i - 1) :
                                has(j) => ~ScalarEq(ex[j].d[k], ex[i].d[k])
        kept == SelectSeq([i \in 1..n |-> i], first)
    IN [m \in 1..Len(kept) |-> ex[kept[m]].d[k]]

VocabExpansionsOnly(ex, exps) ==
    LET keys == IF exps = EmptyItems THEN UNION {DOMAIN ex[i].d : i \in 1..Len(ex)}
                ELSE DOMAIN exps
    IN [k \in keys |->
          IF k \in DOMAIN exps THEN <<exps[k]>>
          ELSE ObservedValues(k, ex, Len(ex))]

\* the dict `vocab` after the perturbation vocabulary was merged in
Vocab(ex, exps) ==
    LET keys == UNION {DOMAIN ex[i].d : i \in 1..Len(ex)} \cup DOMAIN exps
    IN [k \in keys |->
          LET seen == ObservedValues(k, ex, Len(ex))
          IN IF k \in DOMAIN exps THEN AppendNew(seen, exps[k]) ELSE seen]

Ext(c, key, v) ==
    DictV([k \in DOMAIN c.d \cup {key} |-> IF k = key THEN v ELSE c.d[k]])

WithKeyAlwaysPresent(c, key, vals) == [j \in 1..Len(vals) |-> Ext(c, key, vals[j])]

\* one candidate expanded by one key: key absent, then key present with each value
WithKey(c, key, vals) == <<c>> \o [j \in 1..Len(vals) |-> Ext(c, key, vals[j])]

\* `expanded`: the first n candidates, each followed by its extensions
ExpandKey(cands, key, vals, n) ==
    IF n = 0 THEN <<>>
    ELSE LET w == Len(WithKey(cands[1], key, vals))
         IN [m \in 1..(n * w) |->
                WithKey(cands[((m - 1) \div w) + 1], key, vals)[((m - 1) % w) + 1]]

RECURSIVE Combinations(_, _, _)
Combinations(keys, vocab, n) ==
    IF n = 0 THEN <<DictV(EmptyItems)>>
    ELSE LET c == Combinations(keys, vocab, n - 1)
         IN ExpandKey(c, keys[n], vocab[keys[n]], Len(c))

\* `unique` over cands[lo..hi]: what the left half keeps, then what the right
\* half keeps that the left half does not hold
RECURSIVE UniqueIn(_, _, _)
UniqueIn(cands, lo, hi) ==
    IF lo > hi THEN <<>>
    ELSE IF lo = hi THEN <<cands[lo]>>
    ELSE LET mid == (lo + hi) \div 2
             left == UniqueIn(cands, lo, mid)
         IN left \o SelectSeq(UniqueIn(cands, mid + 1, hi),
                               LAMBDA c : ~InList(c, left))

\* `unique`: the first n candidates without repetitions (c not in unique)
Unique(cands, n) == UniqueIn(cands, 1, n)

GenerateDomainUnprepended(st, hist, exps) ==
    LET ex == Experienced(st, hist)
    IN IF ex = <<>> THEN <<NoneV, DictV(EmptyItems)>>
       ELSE LET vocab == Vocab(ex, exps)
                keys == Sorted(DOMAIN vocab)
                candidates == Combinations(keys, vocab, Len(keys))
            IN Unique(candidates, Len(candidates))

\* generate_domain
GenerateDomain(st, hist, exps) ==
    LET ex == Experienced(st, hist)
    IN IF ex = <<>> THEN <<NoneV, DictV(EmptyItems)>>
       ELSE LET vocab == Vocab(ex, exps)
                keys == Sorted(DOMAIN vocab)
                candidates == Combinations(keys, vocab, Len(keys))
            IN <<NoneV>> \o Unique(candidates, Len(candidates))

----------------------------------------------------------------------------
(* Layer 4: one crystallization cycle *)

LayerCensus(cs) ==
    [l \in Layers |-> Cardinality({i \in 1..Len(cs) : cs[i].layer = l})]

Describes(cs) == [i \in 1..Len(cs) |-> Describe(cs[i])]

\* _observe, called from cycle with the round's result and trace
Observe(cs, st, count, result, trace) ==
    [cycle |-> count, constraints |-> Describes(cs), state |-> st,
     result |-> result, layer_census |-> LayerCensus(cs), trace |-> trace]

\* cycle(domain) called with no domain at all
NoDomain == [given |-> FALSE, items |-> <<>>]
Given(items) == [given |-> TRUE, items |-> items]

\* raw_domain = domain or []
RawDomain(arg) == IF arg.given /\ arg.items # <<>> THEN arg.items ELSE <<>>

\* The Observation cycle(domain) returns; the engine's fields afterwards are
\* its cycle, its state and the history with it appended.
CycleObservation(cs, st, count, arg) ==
    LET raw == RawDomain(arg)
        ex == Explore(cs, raw)
        result == FirstOrNone(ex.survivors)
        bound == Bind(st, result)
        trace == [void_potential |-> raw,
                  mental_constraints |-> Describes(cs),
                  astral_narrowing |-> ex.narrowing,
                  astral_survivors |-> ex.survivors,
                  etheric_binding |-> bound,
                  physical_result |-> result]
    IN Observe(cs, bound, count + 1, result, trace)

----------------------------------------------------------------------------
(* Feedback: reflection *)

NoConstraint ==
    [name |-> <<>>, test |-> Test("false", NoKey), layer |-> "void",
     source |-> "", declared_at |-> 0]
Nothing == [none |-> TRUE, val |-> NoConstraint]
Some(c) == [none |-> FALSE, val |-> c]

RequiresName(key) == RequiresPrefix \o key

Names(cs) == {cs[i].name : i \in 1..Len(cs)}

DifferentiatesIfPresent(key, dict_survivors) ==
    Len(SelectSeq(dict_survivors, LAMBDA s : key \in DOMAIN s.d)) > 0

\* len(has_key) < len(dict_survivors)
Differentiates(key, dict_survivors) ==
    Len(SelectSeq(dict_survivors, LAMBDA s : key \in DOMAIN s.d))
        < Len(dict_survivors)

NoStr == [none |-> TRUE, val |-> <<>>]
SomeStr(k) == [none |-> FALSE, val |-> k]

RECURSIVE ScanKeysNoSkip(_, _, _, _)
ScanKeysNoSkip(keys, i, existing_names, dict_survivors) ==
    IF i > Len(keys) THEN NoStr
    ELSE IF Differentiates(keys[i], dict_survivors) THEN SomeStr(keys[i])
    ELSE ScanKeysNoSkip(keys, i + 1, existing_names, dict_survivors)

\* the loop `for key in sorted(all_keys)` from its i-th key on
RECURSIVE ScanKeys(_, _, _, _)
ScanKeys(keys, i, existing_names, dict_survivors) ==
    IF i > Len(keys) THEN NoStr
    ELSE IF RequiresName(keys[i]) \in existing_names
         THEN ScanKeys(keys, i + 1, existing_names, dict_survivors)
    ELSE IF Differentiates(keys[i], dict_survivors) THEN SomeStr(keys[i])
    ELSE ScanKeys(keys, i + 1, existing_names, dict_survivors)

ReflectKeyIgnoringResult(cs, hist) ==
    IF hist = <<>> THEN NoStr
    ELSE LET last == hist[Len(hist)]
             dict_survivors == DictsOf(last.trace.astral_survivors)
             all_keys == UNION {DOMAIN dict_survivors[i].d :
                                   i \in 1..Len(dict_survivors)}
         IN IF Len(dict_survivors) < 2 THEN NoStr
            ELSE ScanKeys(Sorted(all_keys), 1, Names(cs), dict_survivors)

\* The key reflect settles on, if any.
ReflectKey(cs, hist) ==
    IF hist = <<>> THEN NoStr
    ELSE LET last == hist[Len(hist)]
             survivors == last.trace.astral_survivors
             dict_survivors == DictsOf(survivors)
             all_keys == UNION {DOMAIN dict_survivors[i].d :
                                   i \in 1..Len(dict_survivors)}
         IN IF IsNone(last.result) THEN NoStr
            ELSE IF Len(survivors) <= 1 THEN NoStr
            ELSE IF Len(dict_survivors) < 2 THEN NoStr
            ELSE ScanKeys(Sorted(all_keys), 1, Names(cs), dict_survivors)

DeclaredFirst(cs, c) == <<c>> \o cs

\* self.constraints.append(constraint)
Declared(cs, c) == Append(cs, c)

\* declare: the Constraint it builds and appends
NewConstraint(name, test, layer, source, count) ==
    [name |-> name, test |-> test, layer |-> layer, source |-> source,
     declared_at |-> count]

ReflectRequiringDict(cs, hist, count) ==
    LET k == ReflectKey(cs, hist)
    IN IF k.none THEN Nothing
       ELSE Some(NewConstraint(RequiresName(k.val), Test("is_dict", NoKey),
                               "astral", "self-reflection", count))

ReflectRejectingAll(cs, hist, count) ==
    LET k == ReflectKey(cs, hist)
    IN IF k.none THEN Nothing
       ELSE Some(NewConstraint(RequiresName(k.val), Test("false", NoKey),
                               "astral", "self-reflection", count))

ReflectDatedNext(cs, hist, count) ==
    LET k == ReflectKey(cs, hist)
    IN IF k.none THEN Nothing
       ELSE Some(NewConstraint(RequiresName(k.val), Test("has_key", k.val),
                               "astral", "self-reflection", count + 1))

\* reflect: the Constraint it declares, or none
Reflect(cs, hist, count) ==
    LET k == ReflectKey(cs, hist)
    IN IF k.none THEN Nothing
       ELSE Some(NewConstraint(RequiresName(k.val), Test("has_key", k.val),
                               "astral", "self-reflection", count))

----------------------------------------------------------------------------
(* Fixed-point response: perturbation *)

Compound(k1, k2) == k1 \o Underscore \o k2

RECURSIVE ScanPairsStateOnly(_, _, _, _, _)
ScanPairsStateOnly(keys, i, j, st, exps) ==
    IF i > Len(keys) THEN NoStr
    ELSE IF j > Len(keys) THEN ScanPairsStateOnly(keys, i + 1, i + 2, st, exps)
    ELSE LET compound == Compound(keys[i], keys[j])
         IN IF compound \notin DOMAIN st.d THEN SomeStr(compound)
            ELSE ScanPairsStateOnly(keys, i, j + 1, st, exps)

\* the nested loops over pairs of keys, from the pair (i, j) on
RECURSIVE ScanPairs(_, _, _, _, _)
ScanPairs(keys, i, j, st, exps) ==
    IF i > Len(keys) THEN NoStr
    ELSE IF j > Len(keys) THEN ScanPairs(keys, i + 1, i + 2, st, exps)
    ELSE LET compound == Compound(keys[i], keys[j])
         IN IF compound \notin DOMAIN st.d /\ compound \notin DOMAIN exps
            THEN SomeStr(compound)
            ELSE ScanPairs(keys, i, j + 1, st, exps)

DepthMarkerOfKeys(keys, exps) == DepthPrefix \o Digits(Len(keys))

\* depth = len(keys) + len(self._vocabulary_expansions); marker = f"depth_{depth}"
DepthMarker(keys, exps) ==
    DepthPrefix \o Digits(Len(keys) + Cardinality(DOMAIN exps))

PerturbKeyUnguarded(st, exps) ==
    LET keys == Sorted(DOMAIN st.d)
        found == ScanPairs(keys, 1, 2, st, exps)
        marker == DepthMarker(keys, exps)
    IN IF ~found.none THEN found
       ELSE IF marker \notin DOMAIN st.d /\ marker \notin DOMAIN exps
            THEN SomeStr(marker)
       ELSE NoStr

\* _perturb: the key it returns, or none
PerturbKey(st, exps) ==
    IF ~IsDict(st) \/ DOMAIN st.d = {} THEN NoStr
    ELSE LET keys == Sorted(DOMAIN st.d)
             found == ScanPairs(keys, 1, 2, st, exps)
             marker == DepthMarker(keys, exps)
         IN IF ~found.none THEN found
            ELSE IF marker \notin DOMAIN st.d /\ marker \notin DOMAIN exps
                 THEN SomeStr(marker)
            ELSE NoStr

\* self._vocabulary_expansions[key] = True
Expanded(exps, key) ==
    [k \in DOMAIN exps \cup {key} |-> IF k = key THEN BoolV(TRUE) ELSE exps[k]]

PerturbExpansionsUnrecorded(st, exps) == exps

\* _perturb: self._vocabulary_expansions afterwards
PerturbExpansions(st, exps) ==
    LET k == PerturbKey(st, exps)
    IN IF k.none THEN exps ELSE Expanded(exps, k.val)

----------------------------------------------------------------------------
(* Inputs *)

\* The constraints callers declare (tests/invariants.py): name, test, layer, source.
Declarable ==
    { [name |-> <<105, 115, 95, 100, 105, 99, 116>>, test |-> Test("is_dict", NoKey),
       layer |-> "mental", source |-> "test"],          \* "is_dict"
      [name |-> <<104, 97, 115, 95, 97>>, test |-> Test("has_key", KeyA),
       layer |-> "mental", source |-> "test"],          \* "has_a"
      [name |-> <<101, 120, 112, 108, 111, 115, 105, 118, 101>>, test |-> Test("div_zero", NoKey),
       layer |-> "mental", source |-> "test"] }         \* "explosive"

A1 == DictV((KeyA :> IntV(1)))                          \* {"a": 1}
B2 == DictV((KeyB :> IntV(2)))                          \* {"b": 2}
A1B2 == DictV((KeyA :> IntV(1)) @@ (KeyB :> IntV(2)))   \* {"a": 1, "b": 2}

\* The candidate lists callers pass to resolve and cycle.
Domains ==
    { <<>>,
      <<NoneV, A1, A1B2>>,
      <<NoneV, A1, B2>>,
      <<IntV(1), IntV(2)>> }

\* cycle() is also called with no domain at all
DomainArgs == {Given(d) : d \in Domains \ {<<>>}} \cup {NoDomain}

\* The values callers assign to the bound state before they call _perturb
\* (c.state = ...), and states over three keys and over a compound key.
PerturbStates ==
    { NoneV, IntV(42), DictV(EmptyItems),
      DictV((KeyA :> BoolV(TRUE)) @@ (KeyB :> BoolV(TRUE))),
      A1, A1B2,
      DictV((KeyA :> IntV(1)) @@ (KeyB :> IntV(2)) @@ (KeyC :> BoolV(TRUE))),
      DictV((KeyA :> IntV(1)) @@ (Compound(KeyA, KeyB) :> BoolV(TRUE))
                @@ (KeyB :> IntV(2))) }

----------------------------------------------------------------------------
(* The engine *)

NoInt == [none |-> TRUE, val |-> 0]
SomeInt(i) == [none |-> FALSE, val |-> i]

\* evolve's locals before its first round
EvolveLocals(steps) ==
    [steps |-> steps, i |-> 0, observations |-> <<>>, reflections |-> <<>>,
     domain_sizes |-> <<>>, results |-> <<>>, perturbations |-> <<>>,
     fixed_point |-> FALSE, fixed_at |-> NoInt, perturb_calls |-> <<>>]

NotEvolving == EvolveLocals(0)

\* What the last call returned (arg: the list resolve was given; none while
\* evolve has not returned yet).
----------------------------------------------------------------------------
(* The state store: the snapshot is a document of a text format whose values
   are null, numbers, true, false and objects *)

JNull == [j |-> "null", n |-> 0, m |-> <<>>]
JNumber(i) == [j |-> "number", n |-> i, m |-> <<>>]
JBool(b) == [j |-> IF b THEN "true" ELSE "false", n |-> 0, m |-> <<>>]
JObject(f) == [j |-> "object", n |-> 0, m |-> f]

\* a scalar value written to the document
ScalarToJson(v) ==
    CASE IsNone(v) -> JNull
      [] v.tag = "bool" -> JBool(v.n = 1)
      [] v.tag = "int" -> JNumber(v.n)

\* a value written to the document
ToJson(v) ==
    IF IsDict(v) THEN JObject([k \in DOMAIN v.d |-> ScalarToJson(v.d[k])])
    ELSE ScalarToJson(v)

\* a scalar value read from the document
ScalarFromJson(t) ==
    CASE t.j = "null" -> NoneV
      [] t.j = "number" -> IntV(t.n)
      [] t.j \in {"true", "false"} -> BoolV(t.j = "true")

\* a value read from the document
FromJson(t) ==
    IF t.j = "object" THEN DictV([k \in DOMAIN t.m |-> ScalarFromJson(t.m[k])])
    ELSE ScalarFromJson(t)

SnapshotWithoutExpansions(st, count, exps) ==
    [present |-> TRUE, state |-> ToJson(st), cycle_count |-> JNumber(count),
     vocabulary_expansions |-> JObject(EmptyItems)]

\* the snapshot written: {state, cycle_count, vocabulary_expansions}
Snapshot(st, count, exps) ==
    [present |-> TRUE, state |-> ToJson(st), cycle_count |-> JNumber(count),
     vocabulary_expansions |-> ToJson(DictV(exps))]

\* the store holds no snapshot
NoSnapshot ==
    [present |-> FALSE, state |-> JNull, cycle_count |-> JNumber(0),
     vocabulary_expansions |-> JObject(EmptyItems)]

\* the caller has not called generate_domain yet
NotGenerated == [domain |-> <<>>, state |-> NoneV]

\* the engine is bound to no store
Unbound == [bound |-> FALSE, stored |-> NoSnapshot]

\* the fields a snapshot is loaded into
LoadedState(stored) == FromJson(stored.state)
LoadedCount(stored) == stored.cycle_count.n
LoadedExpansions(stored) == FromJson(stored.vocabulary_expansions).d


Returned(op, arg, none, val) == [op |-> op, arg |-> arg, none |-> none, val |-> val]

Init ==
    /\ constraints = <<>>
    /\ state = NoneV
    /\ history = <<>>
    /\ cycle_count = 0
    /\ vocabulary_expansions = EmptyItems
    /\ pc = "idle"
    /\ ev = NotEvolving
    /\ ret = Returned("init", <<>>, TRUE, <<>>)
    /\ etheric = Unbound
    /\ generated = NotGenerated

Declare(p) ==
    /\ pc = "idle"
    /\ Len(constraints) < MaxConstraints
    /\ LET c == NewConstraint(p.name, p.test, p.layer, p.source, cycle_count)
       IN /\ constraints' = Declared(constraints, c)
          /\ ret' = Returned("declare", <<>>, FALSE, c)
    /\ UNCHANGED <<state, history, cycle_count, vocabulary_expansions, pc, ev>>
    /\ UNCHANGED etheric
    /\ UNCHANGED generated

ResolveCall(d) ==
    /\ pc = "idle"
    /\ LET result == Resolve(constraints, d)
       IN ret' = Returned("resolve", d, IsNone(result), result)
    /\ UNCHANGED <<constraints, state, history, cycle_count,
                   vocabulary_expansions, pc, ev>>
    /\ UNCHANGED etheric
    /\ UNCHANGED generated

CycleEffectKeepingLast(obs) ==
    /\ cycle_count' = obs.cycle
    /\ state' = obs.state
    /\ history' = <<obs>>

\* What cycle(arg) does to the engine; obs is the Observation it returns.
CycleEffect(obs) ==
    /\ cycle_count' = obs.cycle
    /\ state' = obs.state
    /\ history' = Append(history, obs)

Cycle(arg) ==
    /\ pc = "idle"
    /\ cycle_count < MaxDirectCycles
    /\ LET obs == CycleObservation(constraints, state, cycle_count, arg)
       IN /\ CycleEffect(obs)
          /\ ret' = Returned("cycle", <<>>, FALSE, obs)
    /\ UNCHANGED <<constraints, vocabulary_expansions, pc, ev>>
    /\ UNCHANGED etheric
    /\ UNCHANGED generated

SelfDomainOfState(st, hist, exps) == GenerateDomain(st, <<>>, exps)

\* self_cycle: domain = self.generate_domain()
SelfDomain(st, hist, exps) == GenerateDomain(st, hist, exps)

SelfCycle ==
    /\ pc = "idle"
    /\ cycle_count < MaxDirectCycles
    /\ LET domain == SelfDomain(state, history, vocabulary_expansions)
           obs == CycleObservation(constraints, state, cycle_count, Given(domain))
       IN /\ CycleEffect(obs)
          /\ ret' = Returned("self_cycle", <<>>, FALSE, obs)
    /\ UNCHANGED <<constraints, vocabulary_expansions, pc, ev>>
    /\ UNCHANGED etheric
    /\ UNCHANGED generated

ReflectCall ==
    /\ pc = "idle"
    /\ LET ref == Reflect(constraints, history, cycle_count)
       IN /\ constraints' = IF ref.none THEN constraints
                            ELSE Declared(constraints, ref.val)
          /\ ret' = Returned("reflect", <<>>, ref.none, ref.val)
    /\ UNCHANGED <<state, history, cycle_count, vocabulary_expansions, pc, ev>>
    /\ UNCHANGED etheric
    /\ UNCHANGED generated

PerturbCall ==
    /\ pc = "idle"
    /\ Cardinality(DOMAIN vocabulary_expansions) < MaxExpansions
    /\ LET k == PerturbKey(state, vocabulary_expansions)
       IN /\ vocabulary_expansions' = PerturbExpansions(state, vocabulary_expansions)
          /\ ret' = Returned("perturb", <<>>, k.none, k.val)
    /\ UNCHANGED <<constraints, state, history, cycle_count, pc, ev>>
    /\ UNCHANGED etheric
    /\ UNCHANGED generated

\* evolve(steps) up to its loop
EvolveCall(steps) ==
    /\ pc = "idle"
    /\ cycle_count <= MaxDirectCycles
    /\ cycle_count + steps <= MaxCycles
    /\ pc' = "evolve"
    /\ ev' = EvolveLocals(steps)
    /\ ret' = Returned("evolve", <<>>, TRUE, <<>>)
    /\ UNCHANGED <<constraints, state, history, cycle_count,
                   vocabulary_expansions>>
    /\ UNCHANGED etheric
    /\ UNCHANGED generated

IsStuckAfterFirst(results, i) == i > 1 /\ PyEq(results[i + 1], results[i])

IsStuckSinceStart(results, i) == i > 0 /\ PyEq(results[i + 1], results[1])

\* is_stuck = i > 0 and obs.result == results[i - 1]  (results are 1-indexed here)
IsStuck(results, i) == i > 0 /\ PyEq(results[i + 1], results[i])

ShouldPerturbOnceFixed(is_stuck, fixed_point, ref) == fixed_point /\ ref.none

\* if is_stuck and ref is None
ShouldPerturb(is_stuck, fixed_point, ref) == is_stuck /\ ref.none

MoreRoundsButLast(e) == e.i + 1 < e.steps

\* for i in range(steps): a round is still to run
MoreRounds(e) == e.i < e.steps

\* one pass through the body of evolve's loop, round i = ev.i
EvolveRound ==
    /\ pc = "evolve"
    /\ MoreRounds(ev)
    /\ LET i == ev.i
           domain == GenerateDomain(state, history, vocabulary_expansions)
           obs == CycleObservation(constraints, state, cycle_count, Given(domain))
           results == Append(ev.results, obs.result)
           is_stuck == IsStuck(results, i)
           first == is_stuck /\ ~ev.fixed_point
           hist == Append(history, obs)
           ref == Reflect(constraints, hist, obs.cycle)
           perturbs == ShouldPerturb(is_stuck, ev.fixed_point \/ first, ref)
           new_key == PerturbKey(obs.state, vocabulary_expansions)
       IN /\ CycleEffect(obs)
          /\ constraints' = IF ref.none THEN constraints
                            ELSE Declared(constraints, ref.val)
          /\ vocabulary_expansions' =
                IF perturbs THEN PerturbExpansions(obs.state, vocabulary_expansions)
                ELSE vocabulary_expansions
          /\ ev' = [ev EXCEPT
                !.i = i + 1,
                !.observations = Append(@, obs),
                !.reflections = Append(@, ref),
                !.domain_sizes = Append(@, Len(domain)),
                !.results = results,
                !.fixed_point = IF first THEN TRUE ELSE @,
                !.fixed_at = IF first THEN SomeInt(i) ELSE @,
                !.perturb_calls = IF perturbs THEN Append(@, <<i, new_key>>) ELSE @,
                !.perturbations = IF perturbs /\ ~new_key.none
                                  THEN Append(@, <<i, new_key.val>>) ELSE @]
    /\ UNCHANGED <<pc, ret>>
    /\ UNCHANGED etheric
    /\ UNCHANGED generated

\* the Trajectory evolve returns
Trajectory(e) ==
    [observations |-> e.observations, reflections |-> e.reflections,
     domain_sizes |-> e.domain_sizes, results |-> e.results,
     fixed_point |-> e.fixed_point, fixed_at |-> e.fixed_at,
     perturbations |-> e.perturbations]

EvolveReturn ==
    /\ pc = "evolve"
    /\ ~MoreRounds(ev)
    /\ pc' = "idle"
    /\ ev' = NotEvolving
    /\ ret' = Returned("evolve", <<>>, FALSE, Trajectory(ev))
    /\ UNCHANGED <<constraints, state, history, cycle_count, vocabulary_expansions>>
    /\ UNCHANGED etheric
    /\ UNCHANGED generated

Next ==
    \/ \E p \in Declarable : Declare(p)
    \/ \E d \in Domains \ {<<NoneV, A1, B2>>} : ResolveCall(d)
    \/ \E arg \in DomainArgs : Cycle(arg)
    \/ SelfCycle
    \/ ReflectCall
    \/ PerturbCall
    \/ \E steps \in 1..MaxSteps : EvolveCall(steps)
    \/ EvolveRound
    \/ EvolveReturn

Spec == Init /\ [][Next]_vars


----------------------------------------------------------------------------
(* The perturbation engine on its own: callers set the bound state and call
   _perturb, as tests/invariants.py does. *)

\* c.state = st
AssignState(st) ==
    /\ pc = "idle"
    /\ state' = st
    /\ ret' = Returned("assign", <<>>, TRUE, <<>>)
    /\ UNCHANGED <<constraints, history, cycle_count, vocabulary_expansions, pc, ev>>
    /\ UNCHANGED etheric
    /\ UNCHANGED generated

\* c._perturb()
PerturbAgain ==
    /\ pc = "idle"
    /\ Cardinality(DOMAIN vocabulary_expansions) < MaxPerturbs
    /\ LET k == PerturbKey(state, vocabulary_expansions)
       IN /\ vocabulary_expansions' = PerturbExpansions(state, vocabulary_expansions)
          /\ ret' = Returned("perturb", <<>>, k.none, k.val)
    /\ UNCHANGED <<constraints, state, history, cycle_count, pc, ev>>
    /\ UNCHANGED etheric
    /\ UNCHANGED generated

PerturbNext ==
    \/ \E st \in PerturbStates : AssignState(st)
    \/ PerturbAgain

PerturbSpec == Init /\ [][PerturbNext]_vars

----------------------------------------------------------------------------
(* The engine seeded with structures whose keys look like synthesized ones *)

DepthOne == DepthPrefix \o Digits(1)               \* "depth_1"

\* cycle(domain=[{"a": 1}, {"depth_1": True}]), beside a seed of plain keys
SeedDomains ==
    { <<A1, DictV((DepthOne :> BoolV(TRUE)))>>,
      <<NoneV, A1, B2>> }

SeededNext ==
    \/ \E p \in Declarable : Declare(p)
    \/ \E d \in SeedDomains : Cycle(Given(d))
    \/ \E steps \in 1..MaxSteps : EvolveCall(steps)
    \/ EvolveRound
    \/ EvolveReturn

SeededSpec == Init /\ [][SeededNext]_vars

\* the seeded engine whose callers also call _perturb
ExpandNext ==
    \/ \E p \in Declarable : Declare(p)
    \/ \E d \in SeedDomains : Cycle(Given(d))
    \/ PerturbCall
    \/ \E steps \in 1..MaxSteps : EvolveCall(steps)
    \/ EvolveRound
    \/ EvolveReturn

ExpandSpec == Init /\ [][ExpandNext]_vars

----------------------------------------------------------------------------
(* The self-directed engine: callers declare, seed it with a cycle over a
   given domain, then let it generate its own domains (tests/invariants.py,
   test_domain_generation and test_self_cycle). *)

\* rounds an engine runs here
MaxSelfCycles == MaxCycles - 2

\* c.cycle(domain=...)
SeedCycle(arg) ==
    /\ pc = "idle"
    /\ cycle_count < MaxSelfCycles
    /\ LET obs == CycleObservation(constraints, state, cycle_count, arg)
       IN /\ CycleEffect(obs)
          /\ ret' = Returned("cycle", <<>>, FALSE, obs)
    /\ UNCHANGED <<constraints, vocabulary_expansions, pc, ev>>
    /\ UNCHANGED etheric
    /\ UNCHANGED generated

\* c.self_cycle()
SelfCycleAgain ==
    /\ pc = "idle"
    /\ cycle_count < MaxSelfCycles
    /\ LET domain == SelfDomain(state, history, vocabulary_expansions)
           obs == CycleObservation(constraints, state, cycle_count, Given(domain))
       IN /\ CycleEffect(obs)
          /\ ret' = Returned("self_cycle", <<>>, FALSE, obs)
    /\ UNCHANGED <<constraints, vocabulary_expansions, pc, ev>>
    /\ UNCHANGED etheric
    /\ UNCHANGED generated

\* c.generate_domain(): assigns to no field of the engine
GenerateDomainCall ==
    /\ pc = "idle"
    /\ ret' = Returned("generate_domain", <<>>, FALSE,
                       GenerateDomain(state, history, vocabulary_expansions))
    /\ UNCHANGED <<constraints, state, history, cycle_count,
                   vocabulary_expansions, pc, ev>>
    /\ UNCHANGED etheric
    /\ UNCHANGED generated

SelfNext ==
    \/ \E p \in Declarable : Declare(p)
    \/ \E d \in SeedDomains : SeedCycle(Given(d))
    \/ SelfCycleAgain
    \/ GenerateDomainCall
    \/ PerturbCall

SelfSpec == Init /\ [][SelfNext]_vars

----------------------------------------------------------------------------
(* Resolution on its own: callers declare a few constraints on a fresh engine,
   in some order, and resolve or cycle over candidate lists that hold equal
   candidates more than once (tests/invariants.py, test_resolution and after). *)

\* the constraints declared here: those of Declarable, "exists" and "has_b"
Predicates ==
    Declarable \cup
    { [name |-> <<101, 120, 105, 115, 116, 115>>, test |-> Test("not_none", NoKey),
       layer |-> "mental", source |-> "test"],          \* "exists"
      [name |-> <<104, 97, 115, 95, 98>>, test |-> Test("has_key", KeyB),
       layer |-> "mental", source |-> "test"] }         \* "has_b"

\* the lists of n distinct constraints, each declared on the fresh engine
RECURSIVE DeclaredLists(_)
DeclaredLists(n) ==
    IF n = 0 THEN {<<>>}
    ELSE {Append(cs, NewConstraint(p.name, p.test, p.layer, p.source, 0)) :
             <<cs, p>> \in {x \in DeclaredLists(n - 1) \X Predicates :
                               x[2].name \notin Names(x[1])}}

\* candidate lists with repeated and with equal (1 == True) candidates
ExploreDomains ==
    { <<A1, NoneV, A1, B2, A1B2, B2>>,
      <<IntV(1), A1B2, BoolV(TRUE), NoneV, A1B2>> }

\* a fresh engine after up to MaxPredicates calls of declare
ExploreInit ==
    /\ constraints \in UNION {DeclaredLists(n) : n \in 0..MaxPredicates}
    /\ state = NoneV
    /\ history = <<>>
    /\ cycle_count = 0
    /\ vocabulary_expansions = EmptyItems
    /\ pc = "idle"
    /\ ev = NotEvolving
    /\ ret = Returned("init", <<>>, TRUE, <<>>)
    /\ etheric = Unbound
    /\ generated = NotGenerated

ExploreNext ==
    \/ \E d \in ExploreDomains : ResolveCall(d)
    \/ \E d \in ExploreDomains : SeedCycle(Given(d))

ExploreSpec == ExploreInit /\ [][ExploreNext]_vars

\* ENABLED <<EvolveRound>>_<<pc, ev>> and ENABLED <<EvolveReturn>>_<<pc, ev>>:
\* the guards of the two actions, whose bodies are total and change ev or pc
RoundEnabled == pc = "evolve" /\ MoreRounds(ev)
ReturnEnabled == pc = "evolve" /\ ~MoreRounds(ev)

\* evolve is one call that nothing interrupts: once entered, its loop runs on
\* and it returns. This is WF_<<pc, ev>>(EvolveRound) /\ WF_<<pc, ev>>(EvolveReturn)
\* with ENABLED written out.
RunSpec ==
    /\ SeededSpec
    /\ ([]<>(~RoundEnabled) \/ []<><<EvolveRound>>_<<pc, ev>>)
    /\ ([]<>(~ReturnEnabled) \/ []<><<EvolveReturn>>_<<pc, ev>>)

----------------------------------------------------------------------------
(* Properties *)

Rounds == 1..Len(history)
Survivors(k) == history[k].trace.astral_survivors
Potential(k) == history[k].trace.void_potential
HasRounds == history # <<>>
LastRound == history[Len(history)]

\* The constraints that were active in round k: the list is append-only and
\* the Observation snapshots one description per active constraint.
ActiveIn(k) == SubSeq(constraints, 1, Len(history[k].constraints))

Occurs(x, xs) == \E i \in 1..Len(xs) : xs[i] = x

\* C1 as stated: the result of resolve and of every round is an element of
\* the candidate sequence or none, and it is none if and only if the final
\* survivor sequence is empty.
C1_NoneIffNoSurvivors ==
    /\ \A k \in Rounds :
          /\ IsNone(history[k].result) \/ Occurs(history[k].result, Potential(k))
          /\ IsNone(history[k].result) <=> Survivors(k) = <<>>
    /\ ret.op = "resolve" =>
          /\ IsNone(ret.val) \/ Occurs(ret.val, ret.arg)
          /\ IsNone(ret.val) <=> Explore(constraints, ret.arg).survivors = <<>>

ResultOfSurvivors(result, survivors, candidates) ==
    /\ IsNone(result) \/ Occurs(result, candidates)
    /\ survivors = <<>> => IsNone(result)
    /\ survivors # <<>> => result = survivors[1]
    /\ IsNone(result) <=> (survivors = <<>> \/ IsNone(survivors[1]))

\* C1 amended: the result of resolve and of every round is an element of the
\* candidate sequence or none; it is none when the final survivor sequence is
\* empty and is the first survivor otherwise, so it is none if and only if
\* the survivor sequence is empty or starts with the none-value.
C1_ResultIsFirstSurvivor ==
    /\ \A k \in Rounds :
          ResultOfSurvivors(history[k].result, Survivors(k), Potential(k))
    /\ ret.op = "resolve" =>
          ResultOfSurvivors(ret.val, Explore(constraints, ret.arg).survivors,
                            ret.arg)

\* resolve returned none although candidates survived: the none-value came first
C1_Witness ==
    /\ ret.op = "resolve"
    /\ ret.none
    /\ Len(Explore(constraints, ret.arg).survivors) >= 2
    /\ \E k \in Rounds : IsNone(history[k].result) /\ Survivors(k) # <<>>

\* cs with every always-raising test replaced by the always-false test
Defused(cs) ==
    [i \in 1..Len(cs) |->
        IF cs[i].test.kind = "div_zero"
        THEN [cs[i] EXCEPT !.test = Test("false", NoKey)]
        ELSE cs[i]]

HasRaising(cs) == \E i \in 1..Len(cs) : cs[i].test.kind = "div_zero"

\* C2: a constraint whose test raises acts as one whose test returns false:
\* every round and every resolve call has the survivors, the narrowing log and
\* the result that the same constraints with the raising test replaced by an
\* always-false one give on the same candidates.
C2_RaisingIsFalse ==
    /\ \A k \in Rounds :
          LET defused == Explore(Defused(ActiveIn(k)), Potential(k))
          IN /\ Survivors(k) = defused.survivors
             /\ history[k].trace.astral_narrowing = defused.narrowing
             /\ history[k].result = Resolve(Defused(ActiveIn(k)), Potential(k))
    /\ ret.op = "resolve" => ret.val = Resolve(Defused(constraints), ret.arg)

\* a raising constraint met candidates, in a round and in a resolve call
C2_Witness ==
    /\ ret.op = "resolve" /\ ret.arg # <<>> /\ ret.none
    /\ HasRaising(constraints)
    /\ \E k \in Rounds :
          /\ HasRaising(ActiveIn(k))
          /\ Potential(k) # <<>>
          /\ Survivors(k) = <<>>

\* the most recent non-none result among the first k rounds, none if there is none
RECURSIVE LastResult(_)
LastResult(k) ==
    IF k = 0 THEN NoneV
    ELSE IF ~IsNone(history[k].result) THEN history[k].result
    ELSE LastResult(k - 1)

\* C3: the bound state is the result of the most recent round whose result
\* was not none (none if there was no such round), after every round: a round
\* with a none result leaves it as it was.
C3_BoundStateIsLastResult ==
    /\ state = LastResult(Len(history))
    /\ \A k \in Rounds :
          /\ history[k].state = LastResult(k)
          /\ history[k].trace.etheric_binding = LastResult(k)

\* a round with a none result left a bound state in place
C3_Witness ==
    \E k \in Rounds :
        /\ k > 1
        /\ IsNone(history[k].result)
        /\ ~IsNone(history[k].state)
        /\ history[k].state = history[k - 1].state

\* the rounds i > 0 (0-indexed) whose result equals the previous round's
StalledRounds(results) ==
    {i \in 1..(Len(results) - 1) : PyEq(results[i + 1], results[i])}

FixedPointIsFirstStall(t) ==
    LET stalled == StalledRounds(t.results)
    IN /\ t.fixed_point <=> stalled # {}
       /\ t.fixed_at.none <=> stalled = {}
       /\ ~t.fixed_at.none =>
             /\ t.fixed_at.val \in stalled
             /\ \A i \in stalled : t.fixed_at.val <= i
             /\ t.fixed_at.val > 0
             /\ t.fixed_at.val < Len(t.results)

EvolveReturned == ret.op = "evolve" /\ ~ret.none

\* C4: in evolve, after every round and in the Trajectory returned,
\* fixed_point is true if and only if some round i > 0 has a result equal to
\* round i-1's, and fixed_at is the smallest such i, none if there is none.
C4_FixedPointIsFirstStall ==
    /\ pc = "evolve" => FixedPointIsFirstStall(ev)
    /\ EvolveReturned => FixedPointIsFirstStall(ret.val)

\* evolve returned a Trajectory that stalled after its results had changed
C4_Witness ==
    /\ EvolveReturned
    /\ ret.val.fixed_point
    /\ ret.val.fixed_at.val >= 2

\* the rounds in which evolve has to call _perturb
PerturbRounds(t) ==
    {i \in StalledRounds(t.results) : t.reflections[i + 1].none}

Increasing(calls) ==
    \A m, n \in 1..Len(calls) : m < n => calls[m][1] < calls[n][1]

\* C5: evolve calls _perturb in round i exactly when round i repeats round
\* i-1's result and reflect returned none in round i; a perturbation (i, key)
\* is recorded exactly when that call returned a key.
C5_PerturbWhenStalledAndNoReflection ==
    /\ pc = "evolve" =>
          /\ {ev.perturb_calls[n][1] : n \in 1..Len(ev.perturb_calls)}
                = PerturbRounds(ev)
          /\ Increasing(ev.perturb_calls)
          /\ ev.perturbations =
                [n \in 1..Len(SelectSeq(ev.perturb_calls, LAMBDA c : ~c[2].none)) |->
                    LET c == SelectSeq(ev.perturb_calls, LAMBDA x : ~x[2].none)[n]
                    IN <<c[1], c[2].val>>]
    /\ EvolveReturned =>
          \A n \in 1..Len(ret.val.perturbations) :
              ret.val.perturbations[n][1] \in PerturbRounds(ret.val)

\* evolve perturbed in a stalled round, and a later stalled round in which
\* reflect found a constraint went without a perturbation
C5_Witness ==
    /\ pc = "evolve"
    /\ ev.perturbations # <<>>
    /\ \E i \in StalledRounds(ev.results) :
          /\ ~ev.reflections[i + 1].none
          /\ i > ev.perturbations[1][1]

\* the generated domain in the current state
Domain == GenerateDomain(state, history, vocabulary_expansions)

\* every structured value the engine has touched, as a set
Touched ==
    {v \in {state} \cup {history[k].result : k \in Rounds}
              \cup UNION {{Survivors(k)[n] : n \in 1..Len(Survivors(k))} : k \in Rounds} :
        IsDict(v)}

NoStructuredExperience == Touched = {}

KnownKeys == UNION {DOMAIN v.d : v \in Touched} \cup DOMAIN vocabulary_expansions

\* the values seen under key: in touched structures and in the expansions
KnownValues(key) ==
    {v.d[key] : v \in {t \in Touched : key \in DOMAIN t.d}}
        \cup {vocabulary_expansions[k] : k \in DOMAIN vocabulary_expansions \cap {key}}

\* every mapping that gives each of the keys either nothing or a known value of it
RECURSIVE Assignments(_)
Assignments(keys) ==
    IF keys = {} THEN {EmptyItems}
    ELSE LET key == CHOOSE x \in keys : TRUE
             rest == Assignments(keys \ {key})
         IN rest \cup {[x \in DOMAIN f \cup {key} |-> IF x = key THEN v ELSE f[x]] :
                          f \in rest, v \in KnownValues(key)}

\* d gives known keys known values of theirs
IsAssignment(d) ==
    /\ DOMAIN d \subseteq KnownKeys
    /\ \A key \in DOMAIN d : \E v \in KnownValues(key) : ScalarEq(d[key], v)

\* how many values of a key differ under ==
RECURSIVE Distinct(_)
Distinct(values) ==
    IF values = {} THEN 0
    ELSE LET v == CHOOSE x \in values : TRUE
         IN 1 + Distinct({w \in values : ~ScalarEq(v, w)})

RECURSIVE SizeProduct(_)
SizeProduct(keys) ==
    IF keys = {} THEN 1
    ELSE LET k == CHOOSE x \in keys : TRUE
         IN (1 + Distinct(KnownValues(k))) * SizeProduct(keys \ {k})

\* C6: with structured experience, the generated domain is the none-value
\* followed by the cross-product of the vocabulary: each mapping of known
\* keys to known values of theirs occurs in it, each entry is such a mapping,
\* no two entries are equal, and there are as many as the product over the
\* keys of (1 + number of known values).
C6_DomainIsCrossProduct ==
    ~NoStructuredExperience =>
        LET structured == Tail(Domain)
        IN /\ IsNone(Domain[1])
           /\ \A f \in Assignments(KnownKeys) : InList(DictV(f), structured)
           /\ \A n \in 1..Len(structured) :
                 /\ IsDict(structured[n])
                 /\ IsAssignment(structured[n].d)
           /\ \A m, n \in 1..Len(structured) :
                 m # n => ~PyEq(structured[m], structured[n])
           /\ Len(structured) = SizeProduct(KnownKeys)

\* a domain over three keys, one of them synthesized, that holds a
\* combination of two results' keys the engine never touched
C6_Witness ==
    /\ Cardinality(KnownKeys) >= 3
    /\ vocabulary_expansions # EmptyItems
    /\ InList(A1B2, Domain)
    /\ A1B2 \notin Touched
    /\ B2 \in Touched

\* C7: without structured experience (the bound state is no structure and no
\* round's result or survivor is one) the generated domain is exactly
\* [none, {}], as every round of evolve started from such a state recorded.
C7_MinimalDomain ==
    NoStructuredExperience =>
        /\ Domain = <<NoneV, DictV(EmptyItems)>>
        /\ pc = "evolve" =>
              \A n \in 1..Len(ev.observations) :
                  /\ ev.observations[n].trace.void_potential = Domain
                  /\ ev.domain_sizes[n] = 2

\* evolve ran two rounds on a scalar bound state with no structured experience
C7_Witness ==
    /\ NoStructuredExperience
    /\ IsNumber(state)
    /\ pc = "evolve"
    /\ Len(ev.domain_sizes) >= 2

\* the structured survivors of the most recent round
StructuredSurvivors ==
    IF HasRounds THEN {v \in {LastRound.trace.astral_survivors[n] :
                                n \in 1..Len(LastRound.trace.astral_survivors)} : IsDict(v)}
    ELSE {}

\* the most recent round has a non-none result and two structured survivors
\* (counted with repetition)
Ambiguous ==
    /\ HasRounds
    /\ ~IsNone(LastRound.result)
    /\ Len(DictsOf(LastRound.trace.astral_survivors)) >= 2

\* the keys in some but not all structured survivors that no constraint in cs
\* requires by name
OpenKeys(cs) ==
    {key \in UNION {DOMAIN v.d : v \in StructuredSurvivors} :
        /\ \E v \in StructuredSurvivors : key \notin DOMAIN v.d
        /\ \A i \in 1..Len(cs) : cs[i].name # RequiresPrefix \o key}

Smallest(keys) == CHOOSE key \in keys : \A other \in keys \ {key} : StrLess(key, other)

\* the candidates a synthesized test is tried on
Probes ==
    {NoneV, IntV(1), DictV(EmptyItems)} \cup {Domain[n] : n \in 1..Len(Domain)}

\* a call of reflect returns (evolve's rounds leave ret alone)
ReflectReturns == ret'.op = "reflect"

\* C8: when the most recent round has a non-none result and two structured
\* survivors, reflect appends and returns one constraint requires_<key> for
\* the smallest key that is in some but not all structured survivors and not
\* yet required by name; it accepts exactly the structures holding the key and
\* comes from 'self-reflection'. Without such a key reflect returns none and
\* leaves the constraints alone.
C8_ReflectRequiresSmallestOpenKey ==
    [][ (ReflectReturns /\ Ambiguous) =>
          IF OpenKeys(constraints) # {}
          THEN LET key == Smallest(OpenKeys(constraints))
               IN /\ ~ret'.none
                  /\ constraints' = Append(constraints, ret'.val)
                  /\ ret'.val.name = RequiresPrefix \o key
                  /\ ret'.val.source = "self-reflection"
                  /\ ret'.val.declared_at = cycle_count
                  /\ \A v \in Probes :
                        Satisfied(ret'.val, v) <=> (IsDict(v) /\ key \in DOMAIN v.d)
          ELSE ret'.none /\ constraints' = constraints
      ]_vars

\* reflect returned requires_b for survivors that all hold the smaller key a
C8_Witness ==
    /\ ret.op = "reflect"
    /\ ~ret.none
    /\ ret.val.name = RequiresPrefix \o KeyB
    /\ \A v \in StructuredSurvivors : KeyA \in DOMAIN v.d
    /\ \A i \in 1..Len(constraints) : constraints[i].name # RequiresPrefix \o KeyA

\* C9: reflect returns none and leaves the constraints alone when there is no
\* round yet, when the most recent result is none, and when the most recent
\* round has at most one survivor.
C9_ReflectNoneWhenUnambiguous ==
    [][ (/\ ReflectReturns
         /\ \/ ~HasRounds
            \/ IsNone(LastRound.result)
            \/ Len(LastRound.trace.astral_survivors) <= 1) =>
          (ret'.none /\ constraints' = constraints)
      ]_vars

\* reflect returned none for a round with a single survivor, and the
\* constraints are the ones that round ran with
C9_Witness ==
    /\ ret.op = "reflect"
    /\ ret.none
    /\ HasRounds
    /\ ~IsNone(LastRound.result)
    /\ Len(LastRound.trace.astral_survivors) = 1
    /\ Len(constraints) = Len(LastRound.constraints)

\* C10: reflect never appends a constraint under a name already in the list;
\* and a reflect call that follows one which returned a constraint, with no
\* round in between, returns none exactly when no key that is not yet
\* required differentiates the round's structured survivors.
C10_ReflectIdempotentPerKey ==
    [][ ReflectReturns =>
          /\ ~ret'.none => ret'.val.name \notin Names(constraints)
          /\ (ret.op = "reflect" /\ ~ret.none) =>
                (ret'.none <=> OpenKeys(constraints) = {})
      ]_vars

\* reflect returned none right after it had returned a constraint for the
\* same round, whose survivors that constraint's key still differentiates
C10_Witness ==
    /\ ret.op = "reflect"
    /\ ret.none
    /\ Ambiguous
    /\ constraints # <<>>
    /\ constraints[Len(constraints)].source = "self-reflection"
    /\ constraints[Len(constraints)].declared_at = cycle_count
    /\ OpenKeys(<<>>) # {}

----------------------------------------------------------------------------
(* Perturbation *)

PerturbReturns == ret'.op = "perturb"

\* the bound state is a non-empty structure
Perturbable == IsDict(state) /\ DOMAIN state.d # {}

\* the pairs of keys of st, smaller key first, whose compound name is neither
\* a key of st nor an expansion
FreePairs(st, exps) ==
    {p \in (DOMAIN st.d) \X (DOMAIN st.d) :
        /\ StrLess(p[1], p[2])
        /\ p[1] \o Underscore \o p[2] \notin DOMAIN st.d \cup DOMAIN exps}

PairBefore(p, q) == StrLess(p[1], q[1]) \/ (p[1] = q[1] /\ StrLess(p[2], q[2]))

FirstPair(pairs) == CHOOSE p \in pairs : \A q \in pairs \ {p} : PairBefore(p, q)

WithTrue(exps, key) == (key :> BoolV(TRUE)) @@ exps

\* C11: on a non-empty structured bound state with a pair of keys whose
\* compound name '<key_i>_<key_j>' is free, _perturb returns the compound of
\* the first such pair in sorted order and records it with the value true;
\* a bound state with the same keys and other values gives the same key.
C11_PerturbFirstFreePair ==
    [][ (PerturbReturns /\ Perturbable
            /\ FreePairs(state, vocabulary_expansions) # {}) =>
          LET p == FirstPair(FreePairs(state, vocabulary_expansions))
              compound == p[1] \o Underscore \o p[2]
          IN /\ ~ret'.none
             /\ ret'.val = compound
             /\ vocabulary_expansions' = WithTrue(vocabulary_expansions, compound)
             /\ \A other \in PerturbStates :
                   DOMAIN other.d = DOMAIN state.d =>
                      PerturbKey(other, vocabulary_expansions) = SomeStr(compound)
      ]_vars

\* _perturb returned b_c on a state over a, b and c: it passed a_b and a_c
C11_Witness ==
    /\ ret.op = "perturb"
    /\ ret.val = KeyB \o Underscore \o KeyC
    /\ DOMAIN state.d = {KeyA, KeyB, KeyC}
    /\ DOMAIN vocabulary_expansions =
          {Compound(KeyA, KeyB), Compound(KeyA, KeyC), Compound(KeyB, KeyC)}

\* depth_<N>, N the number of keys of st plus the number of expansions
Marker(st, exps) ==
    DepthPrefix \o Digits(Cardinality(DOMAIN st.d) + Cardinality(DOMAIN exps))

\* C12: on a non-empty structured bound state without a free pair, _perturb
\* falls back to depth_<N>, N = number of state keys + number of expansions:
\* it records and returns the marker when it is neither a state key nor an
\* expansion, and returns none and leaves the expansions alone otherwise; a
\* key _perturb returns is never one it returned before.
C12_PerturbDepthMarker ==
    [][ PerturbReturns =>
          /\ (Perturbable /\ FreePairs(state, vocabulary_expansions) = {}) =>
                LET marker == Marker(state, vocabulary_expansions)
                IN IF marker \notin DOMAIN state.d \cup DOMAIN vocabulary_expansions
                   THEN /\ ~ret'.none
                        /\ ret'.val = marker
                        /\ vocabulary_expansions' =
                              WithTrue(vocabulary_expansions, marker)
                   ELSE /\ ret'.none
                        /\ vocabulary_expansions' = vocabulary_expansions
          /\ ~ret'.none => ret'.val \notin DOMAIN vocabulary_expansions
      ]_vars

\* _perturb returned none on a non-empty structure: its marker was taken
C12_Witness ==
    /\ ret.op = "perturb"
    /\ ret.none
    /\ Perturbable
    /\ FreePairs(state, vocabulary_expansions) = {}
    /\ Marker(state, vocabulary_expansions) \in DOMAIN vocabulary_expansions

\* C13: on a bound state that is none, a scalar or an empty structure,
\* _perturb returns none and changes no field of the engine.
C13_PerturbNeedsStructure ==
    [][ (PerturbReturns /\ ~Perturbable) =>
          /\ ret'.none
          /\ UNCHANGED <<constraints, state, history, cycle_count,
                         vocabulary_expansions, pc, ev>>
      ]_vars

\* _perturb returned none on the empty structure and on a scalar although
\* expansions exist
C13_Witness ==
    /\ ret.op = "perturb"
    /\ ret.none
    /\ ~Perturbable
    /\ ~IsNone(state)
    /\ vocabulary_expansions # EmptyItems

----------------------------------------------------------------------------
(* Evolution *)

\* the runs of evolve to look at: the one under way and the one returned
Runs == (IF pc = "evolve" THEN {ev} ELSE {})
            \cup (IF EvolveReturned THEN {ret.val} ELSE {})

\* the rounds (0-indexed) run so far
RoundsOf(t) == 0..(Len(t.results) - 1)

\* the rounds in which a perturbation was recorded
PerturbedRounds(t) == {t.perturbations[n][1] : n \in 1..Len(t.perturbations)}

C15_SizesNonDecreasingAfterPerturbation ==
    \A t \in Runs :
        \A p \in PerturbedRounds(t) :
            \A i, j \in RoundsOf(t) :
                (p <= i /\ i < j) => t.domain_sizes[i + 1] <= t.domain_sizes[j + 1]

\* evolve returned a run with a perturbation, two rounds after it, and a
\* larger domain in the last of them
C15_Witness ==
    /\ EvolveReturned
    /\ \E p \in PerturbedRounds(ret.val) :
          /\ p + 2 \in RoundsOf(ret.val)
          /\ ret.val.domain_sizes[p + 1] < ret.val.domain_sizes[p + 3]

\* C16 as stated: in a run of evolve, the round after a recorded perturbation
\* generates a larger domain than the round of the perturbation.
C16_DomainGrowsAfterPerturbation ==
    \A t \in Runs :
        \A p \in PerturbedRounds(t) :
            p + 1 \in RoundsOf(t) => t.domain_sizes[p + 2] > t.domain_sizes[p + 1]

\* round i (0-indexed) of the run t repeats the result of the round before it
Stalled(t, i) == i > 0 /\ PyEq(t.results[i + 1], t.results[i])

\* rounds of the run t after round i whose result differs from round i's
Escapes(t, i) == {j \in RoundsOf(t) : j > i /\ ~PyEq(t.results[j + 1], t.results[i + 1])}

\* C17 as stated: in a run of evolve, a stalled round that has two rounds or
\* more after it is followed by a round with a different result.
C17_EveryStallEscaped ==
    \A t \in Runs :
        \A i \in RoundsOf(t) :
            (Stalled(t, i) /\ i + 2 \in RoundsOf(t)) => Escapes(t, i) # {}

\* the perturbations (i, key) of the run t that round i + 1 answered by
\* reflecting the constraint requires_<key>
TakenUp(t) ==
    {n \in 1..Len(t.perturbations) :
        LET i == t.perturbations[n][1]
        IN /\ i + 1 \in RoundsOf(t)
           /\ ~t.reflections[i + 2].none
           /\ t.reflections[i + 2].val.name = RequiresName(t.perturbations[n][2])}

\* C17: in a run of evolve a perturbation is recorded only in a stalled
\* round, and when round i + 1 answers the perturbation (i, key) by reflecting
\* the constraint requires_<key>, round i + 2 produces a structure that
\* holds the key and so differs from round i's result.
C17_TakenUpStallEscaped ==
    \A t \in Runs :
        /\ \A p \in PerturbedRounds(t) : Stalled(t, p)
        /\ \A n \in TakenUp(t) :
              LET i == t.perturbations[n][1]
                  key == t.perturbations[n][2]
              IN i + 2 \in RoundsOf(t) =>
                    /\ IsDict(t.results[i + 3])
                    /\ key \in DOMAIN t.results[i + 3].d
                    /\ i + 2 \in Escapes(t, i)

\* evolve returned a run in which a structure stalled, a perturbation was
\* recorded and taken up by reflection, and the round after that ran
C17_Witness ==
    /\ EvolveReturned
    /\ \E n \in TakenUp(ret.val) :
          LET i == ret.val.perturbations[n][1]
          IN /\ i + 2 \in RoundsOf(ret.val)
             /\ IsDict(ret.val.results[i + 1])

----------------------------------------------------------------------------
(* History *)

\* the step is a cycle: cycle(domain) or self_cycle() returns, or evolve ends
\* a round
CycleStep ==
    \/ ret'.op \in {"cycle", "self_cycle"}
    \/ pc = "evolve" /\ ev'.i = ev.i + 1

\* the step advances the round counter by one and appends one Observation
\* that carries the new counter, leaving the entries before it as they were
OneRoundRecorded ==
    /\ cycle_count' = cycle_count + 1
    /\ Len(history') = Len(history) + 1
    /\ SubSeq(history', 1, Len(history)) = history
    /\ history'[Len(history')].cycle = cycle_count'

\* history holds one Observation per round, numbered from 1 in order
HistoryNumbered ==
    /\ Len(history) = cycle_count
    /\ \A k \in 1..Len(history) : history[k].cycle = k

\* C18: every cycle step (direct, self-directed or inside evolve) advances
\* the round counter by one and appends one Observation carrying the new
\* counter; every other step leaves the counter and the history alone; so
\* in every reachable state len(history) = cycle_count and the k-th entry
\* carries round k.
C18_HistoryAppendOnly ==
    /\ []HistoryNumbered
    /\ [][/\ CycleStep => OneRoundRecorded
          /\ ~CycleStep => (history' = history /\ cycle_count' = cycle_count)]_vars

\* evolve is past its second round after a direct or self-directed cycle, so
\* the history holds entries of both kinds
C18_Witness ==
    /\ pc = "evolve"
    /\ ev.i >= 2
    /\ Len(history) > ev.i
    /\ history[Len(history)] = ev.observations[ev.i]

----------------------------------------------------------------------------
(* Termination of evolve *)

\* the step enters evolve, runs one of its rounds, or returns from it
EvolveEntered == pc = "idle" /\ pc' = "evolve"
EvolveRan == pc = "evolve" /\ pc' = "evolve"
EvolveLeft == pc = "evolve" /\ pc' = "idle"

\* the Trajectory t is one of `steps` rounds
OfRounds(t, steps) ==
    /\ Len(t.observations) = steps
    /\ Len(t.reflections) = steps
    /\ Len(t.domain_sizes) = steps
    /\ Len(t.results) = steps
    /\ \A i \in 1..steps :
          /\ t.results[i] = t.observations[i].result
          /\ t.domain_sizes[i] >= 2

\* what a step of evolve does to the round counter and the history
EvolveCounts ==
    /\ EvolveEntered =>
          /\ ev'.i = 0 /\ ev'.steps >= 1
          /\ cycle_count' = cycle_count /\ history' = history
    /\ EvolveRan =>
          /\ ev.i < ev.steps
          /\ ev'.i = ev.i + 1 /\ ev'.steps = ev.steps
          /\ cycle_count' = cycle_count + 1
          /\ Len(history') = Len(history) + 1
    /\ EvolveLeft =>
          /\ ev.i = ev.steps
          /\ cycle_count' = cycle_count /\ history' = history
          /\ ~ret'.none
          /\ OfRounds(ret'.val, ev.steps)
          /\ Len(history) >= ev.steps
          /\ SubSeq(history, Len(history) - ev.steps + 1, Len(history))
                = ret'.val.observations

\* C19: evolve(steps) returns, after exactly `steps` rounds: it is entered
\* with no round run, each of its steps runs one round that adds one to the
\* round counter and to the history, and it returns once `steps` rounds have
\* run, with a Trajectory whose observations, reflections, domain_sizes and
\* results have length steps, whose results are the observations' results
\* and whose domain sizes are at least 2.
C19_EvolveRunsStepsRounds ==
    /\ [][EvolveCounts]_vars
    /\ \A steps \in 1..MaxSteps :
          (pc = "evolve" /\ ev.steps = steps)
              ~> (EvolveReturned /\ Len(ret.val.results) = steps)

\* evolve(steps) returned for the largest steps, from an engine that had
\* run a round before
C19_Witness ==
    /\ EvolveReturned
    /\ Len(ret.val.results) = MaxSteps
    /\ cycle_count > MaxSteps

----------------------------------------------------------------------------
(* Self-directed cycles *)

\* the step is a return of self_cycle() or of generate_domain()
SelfCycleReturns == ret'.op = "self_cycle"
GenerateReturns == ret'.op = "generate_domain"

\* the step does to the engine what cycle(domain=d) does and returns the
\* Observation cycle(domain=d) returns
AsCycleOf(d) ==
    LET obs == CycleObservation(constraints, state, cycle_count, Given(d))
    IN /\ ret'.val = obs /\ ~ret'.none
       /\ CycleEffect(obs)
       /\ UNCHANGED <<constraints, vocabulary_expansions, pc, ev>>

----------------------------------------------------------------------------
(* Resolution *)

ResolveReturns == ret'.op = "resolve"

\* C21: resolve(domain) leaves the bound state, the round counter, the
\* history, the constraints and the vocabulary expansions as they were, and
\* returns the result cycle(domain) would record from the same engine.
C21_ResolveStateless ==
    [][ResolveReturns =>
         /\ UNCHANGED <<constraints, state, history, cycle_count,
                        vocabulary_expansions>>
         /\ ret'.val = CycleObservation(constraints, state, cycle_count,
                                        Given(ret'.arg)).result
         /\ ret'.none = IsNone(ret'.val)]_vars

\* resolve returned a candidate other than the first one, on an engine that
\* has a constraint, a bound structure and a history
C21_Witness ==
    /\ ret.op = "resolve"
    /\ ~ret.none
    /\ ret.val # ret.arg[1]
    /\ constraints # <<>>
    /\ history # <<>>
    /\ IsDict(state)

\* the rounds run while no constraint was active
FreeRounds == {k \in Rounds : history[k].constraints = <<>>}

\* D[0] if D else None
HeadOrNone(D) == IF D # <<>> THEN D[1] ELSE NoneV

\* C22: with no constraint nothing is narrowed: in a round run with an empty
\* constraint list the survivors are the candidates, the narrowing log is
\* empty and the result is the first candidate, or none for no candidates;
\* resolve on an engine without constraints returns the same.
C22_NoConstraintsNoNarrowing ==
    /\ \A k \in FreeRounds :
          /\ Survivors(k) = Potential(k)
          /\ history[k].trace.astral_narrowing = <<>>
          /\ history[k].result = HeadOrNone(Potential(k))
    /\ (ret.op = "resolve" /\ constraints = <<>>) =>
          ret.val = HeadOrNone(ret.arg)

\* a round without constraints over several candidates gave a result that
\* is not none, and resolve was then called without constraints on no
\* candidates
C22_Witness ==
    /\ \E k \in FreeRounds :
          /\ Len(Potential(k)) >= 2
          /\ ~IsNone(history[k].result)
    /\ ret.op = "resolve" /\ constraints = <<>> /\ ret.arg = <<>>

\* the candidate passes every constraint of cs
SatisfiesAll(cs, s) == \A i \in 1..Len(cs) : Satisfied(cs[i], s)

\* the orders in which the constraints cs could have been listed
Reorderings(cs) ==
    {[i \in 1..Len(cs) |-> cs[f[i]]] :
        f \in {g \in [1..Len(cs) -> 1..Len(cs)] :
                  \A i, j \in 1..Len(cs) : g[i] = g[j] => i = j}}

\* C24: the survivors of a round are the candidates that pass every active
\* constraint, each as it was given, in the order given and as often as
\* given; listing the constraints in another order gives the same survivors.
C24_SurvivorsAreFilteredCandidates ==
    \A k \in Rounds :
        /\ Survivors(k) = SelectSeq(Potential(k), LAMBDA s : SatisfiesAll(ActiveIn(k), s))
        /\ \A cs \in Reorderings(ActiveIn(k)) :
              Explore(cs, Potential(k)).survivors = Survivors(k)

\* a round under two constraints in which a candidate given twice survived
\* twice and another candidate was eliminated
C24_Witness ==
    \E k \in Rounds :
        /\ Len(history[k].constraints) >= 2
        /\ Len(Survivors(k)) < Len(Potential(k))
        /\ \E i, j \in 1..Len(Survivors(k)) : i < j /\ Survivors(k)[i] = Survivors(k)[j]

\* the narrowing log of round k
Narrowing(k) == history[k].trace.astral_narrowing

\* C25: the narrowing log of a round has one entry (name, before, after) per
\* active constraint, in declaration order under the constraint's name; the
\* first entry counts the candidates given, every entry ends with no more
\* than it began with, every later entry begins with what the entry before
\* it ended with, and the last entry ends with the number of survivors.
C25_NarrowingLogChained ==
    \A k \in Rounds :
        LET log == Narrowing(k)
            cs == ActiveIn(k)
        IN /\ Len(log) = Len(cs)
           /\ \A i \in 1..Len(log) :
                 /\ log[i][1] = cs[i].name
                 /\ log[i][3] <= log[i][2]
                 /\ log[i][2] = (IF i = 1 THEN Len(Potential(k)) ELSE log[i - 1][3])
           /\ log # <<>> => log[Len(log)][3] = Len(Survivors(k))

\* a round under two constraints of which each eliminated a candidate and
\* after which candidates survived
C25_Witness ==
    \E k \in Rounds :
        /\ Len(Narrowing(k)) >= 2
        /\ \A i \in 1..Len(Narrowing(k)) : Narrowing(k)[i][3] < Narrowing(k)[i][2]
        /\ Survivors(k) # <<>>

----------------------------------------------------------------------------
(* The constraint list *)

\* the step appends the constraint c to the list and changes nothing else of it
Appends(c) == constraints' = Append(constraints, c)

\* C26: the constraint list is append-only: declare appends the constraint
\* it returns, reflect appends the constraint it returns or leaves the list
\* alone when it returns none, a round of evolve does what its reflection
\* does, and resolve, cycle, self_cycle, _perturb, generate_domain and the
\* entry to and return from evolve leave the list as it was.
C26_ConstraintsAppendOnly ==
    [][/\ ret'.op = "declare" => Appends(ret'.val)
       /\ ret'.op = "reflect" =>
             IF ret'.none THEN constraints' = constraints ELSE Appends(ret'.val)
       /\ (pc = "evolve" /\ pc' = "evolve") =>
             LET ref == ev'.reflections[Len(ev'.reflections)]
             IN IF ref.none THEN constraints' = constraints ELSE Appends(ref.val)
       /\ (\/ ret'.op \in {"resolve", "cycle", "self_cycle", "perturb",
                         "generate_domain"}
           \/ pc # pc') => constraints' = constraints]_vars

\* evolve returned on an engine whose list holds a declared constraint
\* followed by a reflected one
C26_Witness ==
    /\ EvolveReturned
    /\ Len(constraints) >= 2
    /\ constraints[1].source = "test"
    /\ constraints[2].source = "self-reflection"

----------------------------------------------------------------------------
(* The engine bound to a store: a first life that binds, declares, runs
   rounds, perturbs and saves, and second lives constructed on the same store *)

StoreDomains ==
    {<<NoneV, DictV((KeyA :> BoolV(TRUE)) @@ (KeyB :> BoolV(TRUE)))>>,
     <<NoneV, A1>>, <<IntV(42)>>}

\* c.bind_etheric(path): a snapshot found in the store is loaded
BindEtheric ==
    /\ pc = "idle"
    /\ ~etheric.bound
    /\ etheric' = [etheric EXCEPT !.bound = TRUE]
    /\ IF etheric.stored.present
       THEN /\ state' = LoadedState(etheric.stored)
            /\ cycle_count' = LoadedCount(etheric.stored)
            /\ vocabulary_expansions' = LoadedExpansions(etheric.stored)
       ELSE UNCHANGED <<state, cycle_count, vocabulary_expansions>>
    /\ ret' = Returned("bind_etheric", <<>>, TRUE, <<>>)
    /\ UNCHANGED <<constraints, history, pc, ev>>
    /\ UNCHANGED generated

\* c.cycle(domain=...) on a bound engine: the round, then the snapshot written
BoundCycle(arg) ==
    /\ pc = "idle"
    /\ etheric.bound
    /\ cycle_count < MaxSelfCycles
    /\ LET obs == CycleObservation(constraints, state, cycle_count, arg)
       IN /\ CycleEffect(obs)
          /\ ret' = Returned("cycle", <<>>, FALSE, obs)
          /\ etheric' = [etheric EXCEPT !.stored =
                            Snapshot(obs.state, obs.cycle, vocabulary_expansions)]
    /\ UNCHANGED <<constraints, vocabulary_expansions, pc, ev>>
    /\ UNCHANGED generated

\* c._save()
Save ==
    /\ pc = "idle"
    /\ etheric.bound
    /\ etheric' = [etheric EXCEPT !.stored =
                      Snapshot(state, cycle_count, vocabulary_expansions)]
    /\ ret' = Returned("save", <<>>, TRUE, <<>>)
    /\ UNCHANGED <<constraints, state, history, cycle_count,
                   vocabulary_expansions, pc, ev>>
    /\ UNCHANGED generated

\* c2 = Chrysalis(); c2.bind_etheric(path): a fresh engine on the same store
SecondLife ==
    /\ pc = "idle"
    /\ etheric.bound
    /\ constraints' = <<>>
    /\ history' = <<>>
    /\ IF etheric.stored.present
       THEN /\ state' = LoadedState(etheric.stored)
            /\ cycle_count' = LoadedCount(etheric.stored)
            /\ vocabulary_expansions' = LoadedExpansions(etheric.stored)
       ELSE /\ state' = NoneV
            /\ cycle_count' = 0
            /\ vocabulary_expansions' = EmptyItems
    /\ ret' = Returned("second_life", <<>>, TRUE, <<>>)
    /\ UNCHANGED <<pc, ev, etheric>>
    /\ UNCHANGED generated

StoreNext ==
    \/ BindEtheric
    \/ \E p \in Declarable : Declare(p)
    \/ \E d \in StoreDomains : BoundCycle(Given(d))
    \/ PerturbCall
    \/ Save
    \/ SecondLife

StoreSpec == Init /\ [][StoreNext]_vars

----------------------------------------------------------------------------
(* The engine driven as tests/invariants.py drives it: the bound state is
   assigned, _perturb is called, rounds run on given domains *)

AssignedStates == {DictV((KeyA :> BoolV(TRUE)) @@ (KeyB :> BoolV(TRUE))), A1}

AssignedDomains == {<<IntV(42)>>, <<NoneV, A1B2>>}

\* d = c.generate_domain(): the caller keeps the domain, and the bound state
\* it was generated in, to compare later domains with
GenerateDomainKept ==
    /\ pc = "idle"
    /\ LET domain == GenerateDomain(state, history, vocabulary_expansions)
       IN /\ ret' = Returned("generate_domain", <<>>, FALSE, domain)
          /\ generated' = [domain |-> domain, state |-> state]
    /\ UNCHANGED <<constraints, state, history, cycle_count,
                   vocabulary_expansions, pc, ev, etheric>>

AssignedNext ==
    \/ \E st \in AssignedStates : AssignState(st)
    \/ PerturbAgain
    \/ \E d \in AssignedDomains : SeedCycle(Given(d))
    \/ GenerateDomainCall

\* the same engine with a caller that compares the domains it generates
KeptStates == {DictV((KeyA :> BoolV(TRUE)) @@ (KeyB :> BoolV(TRUE)))}

KeptNext ==
    \/ \E st \in KeptStates : AssignState(st)
    \/ PerturbCall
    \/ \E d \in AssignedDomains : SeedCycle(Given(d))
    \/ GenerateDomainKept

KeptSpec == Init /\ [][KeptNext]_vars

AssignedSpec == Init /\ [][AssignedNext]_vars

\* key k is set to a value equal to true in some candidate of the domain D
OccursIn(k, D) ==
    \E i \in 1..Len(D) :
        /\ IsDict(D[i])
        /\ k \in DOMAIN D[i].d
        /\ ScalarEq(D[i].d[k], BoolV(TRUE))

----------------------------------------------------------------------------
(* The vocabulary expansions *)

\* the step adds the entry k -> true to the expansions, k being until then
\* neither an expansion nor a key of the bound state st, and keeps the rest
AddsExpansion(k, st) ==
    /\ k \notin DOMAIN vocabulary_expansions
    /\ ~(IsDict(st) /\ k \in DOMAIN st.d)
    /\ DOMAIN vocabulary_expansions' = DOMAIN vocabulary_expansions \cup {k}
    /\ vocabulary_expansions'[k] = BoolV(TRUE)
    /\ \A j \in DOMAIN vocabulary_expansions :
          vocabulary_expansions'[j] = vocabulary_expansions[j]

KeepsExpansions == vocabulary_expansions' = vocabulary_expansions

\* the keys of a perturbation list are pairwise distinct
DistinctKeys(ps) ==
    \A i, j \in 1..Len(ps) : i # j => ps[i][2] # ps[j][2]

\* the key the last call returned, when the call was _perturb
KeyReturned == IF ret.op = "perturb" /\ ~ret.none THEN ret.val ELSE <<>>

\* C28: vocabulary_expansions is append-only with value true: a _perturb call
\* that returns a key adds exactly that entry, whose key was in neither the
\* expansions nor the bound state, with value true; one that returns none
\* changes nothing; a round of evolve changes the expansions only by the
\* perturbation it records; no other operation changes them; and the keys of
\* a Trajectory's perturbation list are pairwise distinct.
C28_ExpansionsAppendOnly ==
       [][/\ \A k \in DOMAIN vocabulary_expansions' :
               vocabulary_expansions'[k] = BoolV(TRUE)
          /\ (pc = "evolve" /\ pc' = "idle") =>
               DistinctKeys(ret'.val.perturbations)
          /\ ret'.op = "perturb" =>
               IF ret'.none THEN KeepsExpansions
               ELSE AddsExpansion(ret'.val, state)
          /\ (pc = "evolve" /\ pc' = "evolve") =>
               IF Len(ev'.perturbations) = Len(ev.perturbations)
               THEN KeepsExpansions
               ELSE /\ Len(ev'.perturbations) = Len(ev.perturbations) + 1
                    /\ AddsExpansion(ev'.perturbations[Len(ev'.perturbations)][2],
                                     state')
          /\ (\/ ret'.op \in {"declare", "resolve", "cycle", "self_cycle",
                                "reflect", "generate_domain"}
              \/ pc # pc') => KeepsExpansions
         ]_<<state, vocabulary_expansions, pc, ev, ret.op, ret.none, KeyReturned>>

\* evolve returned a Trajectory that records two perturbations on an engine
\* whose caller had called _perturb before: all the keys are among the expansions
C28_Witness ==
    /\ EvolveReturned
    /\ Cardinality(DOMAIN vocabulary_expansions) > Len(ret.val.perturbations)
    /\ Len(ret.val.perturbations) >= 2
    /\ \A i \in 1..Len(ret.val.perturbations) :
          ret.val.perturbations[i][2] \in DOMAIN vocabulary_expansions

----------------------------------------------------------------------------
(* The shape of the generated domain *)

\* C29: in every reachable state the domain generate_domain returns has the
\* none-value as its first element, contains the empty structure and has at
\* least two elements.
C29_DomainHasNoneAndEmpty ==
    LET D == GenerateDomain(state, history, vocabulary_expansions)
    IN /\ Len(D) >= 2
       /\ D[1] = NoneV
       /\ \E i \in 1..Len(D) : D[i] = DictV(EmptyItems)

\* generate_domain returned more than the minimal domain on an engine that
\* holds a structure and an expansion
C29_Witness ==
    /\ ret.op = "generate_domain"
    /\ Len(ret.val) > 2
    /\ IsDict(state)
    /\ vocabulary_expansions # EmptyItems

----------------------------------------------------------------------------
(* Reflection inside evolve *)

Last(xs) == xs[Len(xs)]

\* the constraint named nm is in neither the constraint snapshot nor the
\* narrowing log of the Observation o
AbsentFrom(nm, o) ==
    /\ \A n \in 1..Len(o.constraints) : o.constraints[n].name # nm
    /\ \A n \in 1..Len(o.trace.astral_narrowing) :
          o.trace.astral_narrowing[n][1] # nm

\* the constraint c is the last of the snapshot and of the narrowing log of o
AppliedLast(c, o) ==
    /\ o.constraints # <<>>
    /\ Last(o.constraints) = Describe(c)
    /\ o.trace.astral_narrowing # <<>>
    /\ Last(o.trace.astral_narrowing)[1] = c.name

\* the rounds of the running evolve in which reflection declared a constraint
ReflectedRounds == {i \in 1..Len(ev.reflections) : ~ev.reflections[i].none}

\* C30 as stated: a constraint reflected in a round of evolve is absent from
\* that round's Observation (snapshot and narrowing log), carries the round's
\* cycle index as declared_at, and is applied last in every later round.
C30_ReflectedAppliedLastEverAfter ==
    \A i \in ReflectedRounds :
        LET c == ev.reflections[i].val
        IN /\ AbsentFrom(c.name, ev.observations[i])
           /\ c.declared_at = ev.observations[i].cycle
           /\ \A j \in (i + 1)..Len(ev.observations) :
                 AppliedLast(c, ev.observations[j])

\* the constraint c stands at place p of the snapshot and of the narrowing
\* log of o, and whatever follows it there was reflected after it
AppliedAt(c, p, o) ==
    /\ Len(o.constraints) >= p
    /\ o.constraints[p] = Describe(c)
    /\ Len(o.trace.astral_narrowing) = Len(o.constraints)
    /\ o.trace.astral_narrowing[p][1] = c.name
    /\ \A n \in (p + 1)..Len(o.constraints) :
          /\ o.constraints[n].source = "self-reflection"
          /\ o.constraints[n].declared_at > c.declared_at

\* C30 amended: a constraint reflected in a round of evolve is absent from
\* that round's Observation (snapshot and narrowing log), carries the round's
\* cycle index as declared_at, and is applied in every later round directly
\* after the constraints of that round's snapshot: last in the next round,
\* followed in later rounds only by constraints reflected after it.
C30_ReflectedAppliedFromNextRound ==
    \A i \in ReflectedRounds :
        LET c == ev.reflections[i].val
            p == Len(ev.observations[i].constraints) + 1
        IN /\ AbsentFrom(c.name, ev.observations[i])
           /\ c.declared_at = ev.observations[i].cycle
           /\ \A j \in (i + 1)..Len(ev.observations) :
                 AppliedAt(c, p, ev.observations[j])
           /\ i < Len(ev.observations) =>
                 AppliedLast(c, ev.observations[i + 1])

\* evolve ran a round in which a constraint reflected two rounds earlier is
\* applied and followed by a constraint reflected after it
C30_Witness ==
    /\ pc = "evolve"
    /\ \E i \in ReflectedRounds :
          /\ i + 2 <= Len(ev.observations)
          /\ Len(ev.observations[i + 2].constraints)
                > Len(ev.observations[i].constraints) + 1

----------------------------------------------------------------------------
(* The snapshot *)

\* the engine has just persisted: its last operation was a round of a bound
\* engine or a save
JustPersisted == etheric.bound /\ ret.op \in {"cycle", "save"}

----------------------------------------------------------------------------
(* What the engine has experienced stays in the generated domain *)

\* every element of the list xs is (Python ==) an element of the list ys
Within(xs, ys) == \A i \in 1..Len(xs) : InList(xs[i], ys)

\* the structure st is none, a scalar, or a structure some recorded round
\* resulted in or kept as a survivor
Recorded(st) == IsDict(st) => InList(st, HistoryDicts(history, Len(history)))

\* the bound state if structured, the structured results and the structured
\* survivors of all rounds are members of the generated domain
ExperienceInDomain == Within(Experienced(state, history), Domain)

----------------------------------------------------------------------------
(* What a reflected constraint does to the round it was reflected from *)

\* reflect has just returned a constraint: called by the caller, or by the
\* round of evolve that has just run
ReflectedNow ==
    \/ ret.op = "reflect" /\ ~ret.none
    \/ pc = "evolve" /\ ev.i > 0 /\ ~Last(ev.reflections).none

\* the survivors of the most recent round's candidates under the constraint
\* list as it is now
Reapplied == Explore(constraints, Last(history).trace.void_potential).survivors

\* fewer survivors than the most recent round had, but at least one
NarrowedNotEmptied ==
    /\ Reapplied # <<>>
    /\ Len(Reapplied) < Len(Last(history).trace.astral_survivors)

\* the constraint list is that of the most recent round and one more
FirstSinceRound == Len(constraints) = Len(Last(history).constraints) + 1

\* C32 as stated: whenever reflect has just returned a constraint, the
\* extended list applied to the most recent round's candidates leaves at
\* least one survivor and fewer than the round had.
C32_ReflectionNarrowsNeverEmpties == ReflectedNow => NarrowedNotEmptied

\* C32 amended: the same, when the returned constraint is the first one
\* added since the most recent round ran.
C32_FirstReflectionNarrowsNeverEmpties ==
    (ReflectedNow /\ FirstSinceRound) => NarrowedNotEmptied

\* reflect, called by the caller, returned the first constraint since a round
\* that had applied a constraint and kept three survivors or more
C32_Witness ==
    /\ ret.op = "reflect" /\ ~ret.none
    /\ FirstSinceRound
    /\ Len(constraints) >= 2
    /\ Len(Last(history).trace.astral_survivors) >= 2
    /\ Len(Reapplied) >= 1

----------------------------------------------------------------------------
(* The engine seeded with equal values of different types, and a caller's
   predicate that tells them apart *)

BOne == DictV((KeyB :> IntV(1)))                        \* {"b": 1}
BTrue == DictV((KeyB :> BoolV(TRUE)))                   \* {"b": True}

\* cycle(domain=[{"b": 1}]), cycle(domain=[{"b": True}])
TypedDomains == {<<BOne>>, <<BTrue>>}

\* declare("is_dict", lambda s: isinstance(s, dict)),
\* declare("b_true", lambda s: isinstance(s, dict) and s.get("b", True) is True)
TypedPredicates ==
    { [name |-> <<105, 115, 95, 100, 105, 99, 116>>, test |-> Test("is_dict", NoKey),
       layer |-> "mental", source |-> "test"],
      [name |-> <<98, 95, 116, 114, 117, 101>>, test |-> Test("true_if_held", KeyB),
       layer |-> "astral", source |-> "intent"] }

\* evolve(steps) up to its loop, after any number of seeding rounds
EvolveSeeded(steps) ==
    /\ pc = "idle"
    /\ cycle_count + steps <= MaxCycles
    /\ pc' = "evolve"
    /\ ev' = EvolveLocals(steps)
    /\ ret' = Returned("evolve", <<>>, TRUE, <<>>)
    /\ UNCHANGED <<constraints, state, history, cycle_count,
                   vocabulary_expansions>>
    /\ UNCHANGED etheric
    /\ UNCHANGED generated

TypedNext ==
    \/ \E p \in TypedPredicates : Declare(p)
    \/ \E d \in TypedDomains : SeedCycle(Given(d))
    \/ \E steps \in 1..MaxSteps : EvolveSeeded(steps)
    \/ EvolveRound
    \/ EvolveReturn

TypedSpec == Init /\ [][TypedNext]_vars

----------------------------------------------------------------------------
(* Results of one evolve run never fall back to the void *)

\* no round of the run so far yielded none after a round that yielded a result
NeverFallsBack ==
    \A i, j \in 1..Len(ev.results) :
        (i < j /\ ~IsNone(ev.results[i])) => ~IsNone(ev.results[j])

\* the none-value is among the survivors of round 0 of the run
NoneSurvivedFirst ==
    /\ ev.observations # <<>>
    /\ LET survivors == ev.observations[1].trace.astral_survivors
       IN \E k \in 1..Len(survivors) : IsNone(survivors[k])

\* every round of the run so far yielded none and reflected nothing
StaysVoid ==
    /\ \A i \in 1..Len(ev.results) : IsNone(ev.results[i])
    /\ \A i \in 1..Len(ev.reflections) : ev.reflections[i].none

\* the candidates the rounds so far were run over
SeenCandidates ==
    UNION { {history[n].trace.void_potential[k] :
                k \in 1..Len(history[n].trace.void_potential)} :
            n \in 1..Len(history) }

\* constraint c gives one answer on candidates that compare equal
AnswersAlike(c) ==
    \A s, w \in SeenCandidates : PyEq(s, w) => (Satisfied(c, s) <=> Satisfied(c, w))

\* C33 as stated: within an evolve run, no round yields none after a round
\* that yielded a result, and if none survived round 0 then every round
\* yields none and no reflection adds a constraint.
C33_ResultsNeverFallBack ==
    pc = "evolve" => (NeverFallsBack /\ (NoneSurvivedFirst => StaysVoid))

\* C33 amended: the same, within a run whose constraints each give one answer
\* on candidates that compare equal.
C33_ResultsNeverFallBackWhenAnsweredAlike ==
    (pc = "evolve" /\ \A i \in 1..Len(constraints) : AnswersAlike(constraints[i]))
        => (NeverFallsBack /\ (NoneSurvivedFirst => StaysVoid))

\* a run over an engine that has seen both 1 and True under one key yielded a
\* result in round 0, reflected a constraint from it, and yielded a result in
\* round 1 under the longer list
C33_Witness ==
    /\ pc = "evolve" /\ ev.i >= 2
    /\ \A i \in 1..Len(constraints) : AnswersAlike(constraints[i])
    /\ \E s, w \in SeenCandidates : s # w /\ PyEq(s, w)
    /\ ~IsNone(ev.results[1]) /\ ~ev.reflections[1].none
    /\ ~IsNone(ev.results[2])
    /\ Len(constraints) >= 2

====
